---------------------------- MODULE Spec2Model ----------------------------
(***************************************************************************)
(* A model of the sniper bidding agent: the bidding engine's transition    *)
(* and decision functions and its event handler                            *)
(* (src/src/service/bidding_engine.rs), the service loops with their       *)
(* shared stop flag (src/src/service.rs) and the progress tracker          *)
(* (src/src/progress/in_memory.rs).                                        *)
(*                                                                         *)
(* Option<T> is a sequence of length at most one: None is <<>>, Some(x) is *)
(* <<x>>.  Vec<T> is a sequence.                                           *)
(***************************************************************************)
EXTENDS Integers, Sequences, FiniteSets, TLC

\* ------------------------------------------------------------------ bounds

\* Bid prices and ceilings of the events fed to the engine are 0..MaxPrice.
MaxPrice == 1

\* The engine's log holds at most MaxLog records: a call that would write
\* past it is not made.
MaxLog == 2

\* The shared event log read by the service loops holds at most MaxOffset
\* records, at the offsets 1..MaxOffset.
MaxOffset == 2

\* The auction house and the UI together append at most MaxExternal events
\* to the log the engine follows.
MaxExternal == 2

\* ------------------------------------------------------------ domain types

None == <<>>

Some(x) == <<x>>

Items == {"A1"}

Bidders == {"Sniper", "Other"}

Prices == 0..MaxPrice

\* The ceilings a MaxBidSet event carries: the small prices, and the 100 of
\* the reference scenario.
Ceilings == Prices \cup {100}

BidDetails == [bidder : Bidders, price : Prices]

\* BidDetails::is_outbidded_by: a price outbids a bid iff it is greater.
is_outbidded_by(highest, price) == price > highest.price

\* BidDetails::next_valid_bid: the minimum price that outbids the bid.
next_valid_bid(highest_bid) == highest_bid.price + 1

DefaultAuctionState == [higest_bid |-> None, closed |-> FALSE]

DefaultAuctionBiddingState == [max_bid |-> 0, state |-> DefaultAuctionState]

\* auction_house::EventDetails
AuctionBid(bid) == [type |-> "Bid", bid |-> bid]

AuctionClosed == [type |-> "Closed"]

AuctionEventDetails == {AuctionBid(b) : b \in BidDetails} \cup {AuctionClosed}

\* bidding_engine::Event
EngineBid(item, price) == [type |-> "Bid", item |-> item, price |-> price]

UnknownAuction(item) == [type |-> "AuctionError", error |-> "UnknownAuction", item |-> item]

UserError(e) == [type |-> "UserError", error |-> e]

\* event_log::EventDetails
AuctionHouse(item, event) == [category |-> "AuctionHouse", item |-> item, event |-> event]

MaxBidSet(item, price) == [category |-> "Ui", type |-> "MaxBidSet", item |-> item, price |-> price]

BiddingEngine(e) == [category |-> "BiddingEngine", event |-> e]

AuctionHouseEvents == {AuctionHouse(i, e) : i \in Items, e \in AuctionEventDetails}

UiEvents == {MaxBidSet(i, p) : i \in Items, p \in Ceilings}

\* One event of each kind the engine itself writes.
BiddingEngineEvents ==
    {BiddingEngine(EngineBid(i, 0)) : i \in Items}
        \cup {BiddingEngine(UnknownAuction(i)) : i \in Items}
        \cup {BiddingEngine(UserError("TooLow"))}

\* The events the engine's handler is fed.
InputEvents == AuctionHouseEvents \cup UiEvents \cup BiddingEngineEvents

\* The step of handle_event_with that fails, if one does.
Failures == {"none", "load", "store", "write"}

\* ---------------------------------------------------- the pure transitions

\* handle_auction_event with the `!self.closed` test left out.
handle_auction_event_ignoring_closed(self, event) ==
    IF event.type = "Bid"
    THEN IF (IF self.higest_bid = None
             THEN TRUE
             ELSE is_outbidded_by(self.higest_bid[1], event.bid.price))
         THEN [self EXCEPT !.higest_bid = Some(event.bid)]
         ELSE self
    ELSE [self EXCEPT !.closed = TRUE]

\* handle_auction_event with the is_outbidded_by test left out.
handle_auction_event_taking_any_bid(self, event) ==
    IF event.type = "Bid"
    THEN IF ~self.closed
         THEN [self EXCEPT !.higest_bid = Some(event.bid)]
         ELSE self
    ELSE [self EXCEPT !.closed = TRUE]

\* AuctionState::handle_auction_event
handle_auction_event(self, event) ==
    IF event.type = "Bid"
    THEN IF /\ ~self.closed
            /\ (IF self.higest_bid = None
                THEN TRUE
                ELSE is_outbidded_by(self.higest_bid[1], event.bid.price))
         THEN [self EXCEPT !.higest_bid = Some(event.bid)]
         ELSE self
    ELSE [self EXCEPT !.closed = TRUE]

\* get_next_bid opening at 1 instead of 0.
get_next_bid_opening_at_one(self, max_price) ==
    IF self.closed THEN None
    ELSE IF self.higest_bid = None THEN Some(1)
    ELSE IF self.higest_bid[1].bidder = "Sniper" THEN None
    ELSE LET outbid_price == next_valid_bid(self.higest_bid[1])
         IN  IF outbid_price <= max_price THEN Some(outbid_price) ELSE None

\* get_next_bid that stops one short of the ceiling.
get_next_bid_below_ceiling(self, max_price) ==
    IF self.closed THEN None
    ELSE IF self.higest_bid = None THEN Some(0)
    ELSE IF self.higest_bid[1].bidder = "Sniper" THEN None
    ELSE LET outbid_price == next_valid_bid(self.higest_bid[1])
         IN  IF outbid_price < max_price THEN Some(outbid_price) ELSE None

\* get_next_bid that outbids whatever the ceiling.
get_next_bid_ignoring_ceiling(self, max_price) ==
    IF self.closed THEN None
    ELSE IF self.higest_bid = None THEN Some(0)
    ELSE IF self.higest_bid[1].bidder = "Sniper" THEN None
    ELSE Some(next_valid_bid(self.higest_bid[1]))

\* AuctionState::get_next_bid
get_next_bid(self, max_price) ==
    IF self.closed THEN None
    ELSE IF self.higest_bid = None THEN Some(0)
    ELSE IF self.higest_bid[1].bidder = "Sniper" THEN None
    ELSE LET outbid_price == next_valid_bid(self.higest_bid[1])
         IN  IF outbid_price <= max_price THEN Some(outbid_price) ELSE None

\* AuctionBiddingState::handle_auction_house_event filling max_bid from the
\* default state.
state_handle_auction_house_event_resetting_max_bid(self, event) ==
    [max_bid |-> DefaultAuctionBiddingState.max_bid,
     state |-> handle_auction_event(self.state, event)]

\* AuctionBiddingState::handle_auction_house_event
state_handle_auction_house_event(self, event) ==
    [max_bid |-> self.max_bid, state |-> handle_auction_event(self.state, event)]

\* AuctionBiddingState::handle_new_max_bid
handle_new_max_bid(self, max_bid) == [self EXCEPT !.max_bid = max_bid]

\* The Bid events a next bid maps to: Option<Amount> -> Vec<Event>.
bid_events(item_id, next_bid) ==
    IF next_bid = None THEN <<>> ELSE <<EngineBid(item_id, next_bid[1])>>

\* handle_auction_house_event with the `new_state != auction_state` test left out.
handle_auction_house_event_always_persisting(item_id, old_state, event) ==
    IF old_state # None
    THEN LET auction_state == old_state[1]
             new_state == state_handle_auction_house_event(auction_state, event)
         IN  [new_state |-> Some(new_state),
              events |-> bid_events(item_id,
                             get_next_bid(new_state.state, new_state.max_bid))]
    ELSE [new_state |-> None, events |-> <<UnknownAuction(item_id)>>]

\* handle_auction_house_event defaulting an absent state, as handle_max_bid_event does.
handle_auction_house_event_defaulting(item_id, old_state, event) ==
    LET auction_state == IF old_state = None THEN DefaultAuctionBiddingState
                         ELSE old_state[1]
        new_state == state_handle_auction_house_event(auction_state, event)
    IN  IF new_state # auction_state
        THEN [new_state |-> Some(new_state),
              events |-> bid_events(item_id,
                             get_next_bid(new_state.state, new_state.max_bid))]
        ELSE [new_state |-> None, events |-> <<>>]

\* BiddingEngine::handle_auction_house_event
handle_auction_house_event(item_id, old_state, event) ==
    IF old_state # None
    THEN LET auction_state == old_state[1]
             new_state == state_handle_auction_house_event(auction_state, event)
         IN  IF new_state # auction_state
             THEN [new_state |-> Some(new_state),
                   events |-> bid_events(item_id,
                                  get_next_bid(new_state.state, new_state.max_bid))]
             ELSE [new_state |-> None, events |-> <<>>]
    ELSE [new_state |-> None, events |-> <<UnknownAuction(item_id)>>]

\* handle_max_bid_event bidding the next valid price under the new ceiling
\* whoever holds the highest bid.
handle_max_bid_event_rebidding(item_id, old_state, price) ==
    LET auction_state == IF old_state = None THEN DefaultAuctionBiddingState
                         ELSE old_state[1]
        new_state == handle_new_max_bid(auction_state, price)
    IN  IF new_state # auction_state
        THEN [new_state |-> Some(new_state),
              events |-> bid_events(item_id,
                  IF new_state.state.closed THEN None
                  ELSE IF new_state.state.higest_bid = None THEN Some(0)
                  ELSE IF next_valid_bid(new_state.state.higest_bid[1]) <= new_state.max_bid
                       THEN Some(next_valid_bid(new_state.state.higest_bid[1]))
                       ELSE None)]
        ELSE [new_state |-> None, events |-> <<>>]

\* BiddingEngine::handle_max_bid_event
handle_max_bid_event(item_id, old_state, price) ==
    LET auction_state == IF old_state = None THEN DefaultAuctionBiddingState
                         ELSE old_state[1]
        new_state == handle_new_max_bid(auction_state, price)
    IN  IF /\ new_state # auction_state
           /\ (IF new_state.state.higest_bid = None
               THEN TRUE
               ELSE new_state.state.higest_bid[1].bidder # "Sniper")
        THEN [new_state |-> Some(new_state),
              events |-> bid_events(item_id,
                             get_next_bid(new_state.state, new_state.max_bid))]
        ELSE [new_state |-> None, events |-> <<>>]

\* ------------------------------------------------------------------- state

VARIABLES
    bidding_state_store,  \* InMemoryBiddingStateStore: ItemId -> Option<AuctionBiddingState>
    event_log,            \* the records the engine's event writer has appended
    last,                 \* the last call of handle_event: its input, locals and result
    best,                 \* history: per item, the greatest price among the bids
                          \* stored as higest_bid so far (-1: none yet)
    scenario              \* history: how many events of the reference scenario the
                          \* calls so far are, in order; -1 once they depart from it

engine_vars == <<bidding_state_store, event_log, last, best, scenario>>

VARIABLES
    stop,            \* ServiceControl::stop, the shared AtomicBool
    pc,              \* per loop: where its thread is
    result,          \* per loop: what its thread returned ("none" while it runs)
    progress,        \* per event loop: the local `progress` of spawn_event_loop
    in_flight,       \* per event loop: the offset of the event read and not yet persisted
    progress_store,  \* InMemoryProgressTracker::store: ServiceId -> Option<Offset>
    log_end,         \* the shared event log holds records at the offsets 1..log_end
    crashed_in       \* history: per loop, where its thread was at the last crash

loop_vars == <<stop, pc, result, progress, in_flight, progress_store, log_end, crashed_in>>

VARIABLES
    hist             \* history of the consumer's event loop and of the worker loop:
                     \*   calls[o]: how often the handler returned Ok for the event
                     \*             at offset o (2 stands for twice or more),
                     \*   failed_at: the offset the handler last returned Err for (0: none),
                     \*   delivered: the offset the handler was last invoked on since
                     \*              the loop was spawned (0: none),
                     \*   runs: how often the worker's body was started since it was
                     \*         spawned (2 stands for twice or more)

VARIABLES
    tracker          \* the last call made on the progress tracker directly: the
                     \* operation, its ServiceId, the offset stored or returned,
                     \* and for each id the offset of the most recent store and
                     \* of the store before that one (None where there is none)

aux_vars == <<hist, tracker>>

vars == <<engine_vars, loop_vars, aux_vars>>

\* InMemoryBiddingStateStore::load_tr
load_tr(store, item_id) == store[item_id]

\* InMemoryBiddingStateStore::store_tr: the insert goes into the map itself;
\* the transaction it is handed is not used.
store_tr(store, item_id, state) == [store EXCEPT ![item_id] = Some(state)]

\* event_log::Writer::write_tr: appends the records in order.
write_tr(log, events) == log \o [k \in 1..Len(events) |-> BiddingEngine(events[k])]

\* The closure handle_event hands to handle_event_with, applied to the loaded state.
apply_f(event, old_state) ==
    IF event.category = "AuctionHouse"
    THEN handle_auction_house_event(event.item, old_state, event.event)
    ELSE handle_max_bid_event(event.item, old_state, event.price)

\* BiddingEngine::handle_event_with: the store and the log it leaves, its
\* result and its locals.  `fail` names the step that returns Err if the call
\* gets to it; `failed` is the step that did ("none" when the call returned Ok).
handle_event_with(store, log, item_id, event, fail) ==
    IF fail = "load"
    THEN [store |-> store, log |-> log, result |-> "Err", failed |-> "load",
          auction_state |-> None, new_state |-> None, events |-> <<>>]
    ELSE LET auction_state == load_tr(store, item_id)
             out == apply_f(event, auction_state)
         IN  IF out.new_state # None /\ fail = "store"
             THEN [store |-> store, log |-> log, result |-> "Err", failed |-> "store",
                   auction_state |-> auction_state, new_state |-> out.new_state,
                   events |-> out.events]
             ELSE LET stored == IF out.new_state # None
                                THEN store_tr(store, item_id, out.new_state[1])
                                ELSE store
                  IN  IF fail = "write"
                      THEN [store |-> stored, log |-> log, result |-> "Err",
                            failed |-> "write", auction_state |-> auction_state,
                            new_state |-> out.new_state, events |-> out.events]
                      ELSE [store |-> stored, log |-> write_tr(log, out.events),
                            result |-> "Ok", failed |-> "none",
                            auction_state |-> auction_state,
                            new_state |-> out.new_state, events |-> out.events]

\* handle_event writing an event of its own category to the log once more.
handle_event_echoing(store, log, event, fail) ==
    IF event.category = "AuctionHouse" \/ event.category = "Ui"
    THEN handle_event_with(store, log, event.item, event, fail)
    ELSE [store |-> store, log |-> write_tr(log, <<event.event>>), result |-> "Ok",
          failed |-> "none", auction_state |-> None, new_state |-> None,
          events |-> <<event.event>>]

\* LogFollowerService::handle_event for BiddingEngine
handle_event(store, log, event, fail) ==
    IF event.category = "AuctionHouse" \/ event.category = "Ui"
    THEN handle_event_with(store, log, event.item, event, fail)
    ELSE [store |-> store, log |-> log, result |-> "Ok", failed |-> "none",
          auction_state |-> None, new_state |-> None, events |-> <<>>]

\* ----------------------------------------------------------------- actions

\* The reference scenario of the engine: the events fed, in order.
ReferenceScenario ==
    << MaxBidSet("A1", 100),
       AuctionHouse("A1", AuctionBid([bidder |-> "Other", price |-> 0])),
       AuctionHouse("A1", AuctionBid([bidder |-> "Sniper", price |-> 1])),
       AuctionHouse("A1", AuctionClosed) >>

NoCall == [event |-> None, fail |-> "none", result |-> "Ok", repeat |-> FALSE,
           auction_state |-> None, new_state |-> None, events |-> <<>>]

\* The higest_bid a store entry holds (None for an absent item).
stored_higest_bid(entry) == IF entry = None THEN None ELSE entry[1].state.higest_bid

EngineInit ==
    /\ bidding_state_store = [i \in Items |-> None]
    /\ event_log = <<>>
    /\ last = NoCall
    /\ best = [i \in Items |-> -1]
    /\ scenario = 0

\* One call of handle_event on an event of the log, with one outcome of the
\* persistence calls it makes (a failure is drawn only for a step the call
\* gets to).
HandleEvent ==
    \E event \in InputEvents, fail \in Failures :
        LET r == handle_event(bidding_state_store, event_log, event, fail)
        IN  /\ r.failed = fail
            /\ Len(r.log) <= MaxLog
            /\ bidding_state_store' = r.store
            /\ event_log' = r.log
            /\ last' = [event |-> Some(event), fail |-> fail, result |-> r.result,
                        repeat |-> (last.event = Some(event) /\ last.result = "Ok"),
                        auction_state |-> r.auction_state,
                        new_state |-> r.new_state, events |-> r.events]
            /\ best' = [i \in Items |->
                    IF /\ stored_higest_bid(r.store[i]) # stored_higest_bid(bidding_state_store[i])
                       /\ stored_higest_bid(r.store[i]) # None
                       /\ stored_higest_bid(r.store[i])[1].price > best[i]
                    THEN stored_higest_bid(r.store[i])[1].price
                    ELSE best[i]]
            /\ scenario' = IF /\ scenario >= 0
                              /\ scenario < Len(ReferenceScenario)
                              /\ event = ReferenceScenario[scenario + 1]
                              /\ r.result = "Ok"
                           THEN scenario + 1
                           ELSE -1
            /\ UNCHANGED <<loop_vars, aux_vars>>

\* ----------------------------------------------------------- service loops

\* The consumers of the shared log, each with an event loop of its own.
ServiceIds == {"bidding-engine", "ui"}

\* The loops spawned by spawn_loop directly.
PlainLoops == {"worker"}

Loops == ServiceIds \cup PlainLoops

\* InMemoryProgressTracker::load / load_tr
progress_load(store, id) == store[id]

\* A tracker whose cursors never move back: the greater offset is kept.
progress_store_tr_keeping_greatest(store, id, offset) ==
    [store EXCEPT ![id] = IF @ # None /\ @[1] > offset THEN @ ELSE Some(offset)]

\* InMemoryProgressTracker::store_tr
progress_store_tr(store, id, offset) == [store EXCEPT ![id] = Some(offset)]

\* The offset a cursor stands at: 0 before the first record.
cursor(o) == IF o = None THEN 0 ELSE o[1]

\* InMemoryProgressTracker::load_tr: the same lookup inside a transaction.
progress_load_tr(store, id) == store[id]

\* event_log::Reader::read(after, 1, timeout): the record with the least
\* offset greater than `after`, or nothing when the log holds none.
read(end, after) ==
    LET from == IF after = None THEN 1 ELSE after[1] + 1
    IN  IF from <= end THEN <<from>> ELSE <<>>

LoopInit ==
    /\ stop = FALSE
    /\ pc = [l \in Loops |-> "unspawned"]
    /\ result = [l \in Loops |-> "none"]
    /\ progress = [s \in ServiceIds |-> None]
    /\ in_flight = [s \in ServiceIds |-> None]
    /\ progress_store = [s \in ServiceIds |-> None]
    /\ log_end = 0
    /\ crashed_in = [l \in Loops |-> "none"]

\* A producer appends a record to the shared log.
AppendEvent ==
    /\ log_end < MaxOffset
    /\ log_end' = log_end + 1
    /\ UNCHANGED <<stop, pc, result, progress, in_flight, progress_store, crashed_in>>

\* spawn_loop: the thread starts at the head of its while loop.
SpawnLoop(l) ==
    /\ pc[l] = "unspawned"
    /\ pc' = [pc EXCEPT ![l] = "check"]
    /\ UNCHANGED <<stop, result, progress, in_flight, progress_store, log_end, crashed_in>>

\* spawn_event_loop with the starting cursor ignored: the loop starts from None.
SpawnEventLoopFromStart(s) ==
    /\ pc[s] = "unspawned"
    /\ progress' = [progress EXCEPT ![s] = None]
    /\ pc' = [pc EXCEPT ![s] = "check"]
    /\ UNCHANGED <<stop, result, in_flight, progress_store, log_end, crashed_in>>

\* spawn_event_loop: loads the starting cursor, then spawn_loop.
SpawnEventLoop(s) ==
    /\ pc[s] = "unspawned"
    /\ progress' = [progress EXCEPT ![s] = progress_load(progress_store, s)]
    /\ pc' = [pc EXCEPT ![s] = "check"]
    /\ UNCHANGED <<stop, result, in_flight, progress_store, log_end, crashed_in>>

\* spawn_event_loop when progress_store.load fails: the handle of a thread
\* that returns the error; the stop flag is not touched.
SpawnEventLoopLoadFails(s) ==
    /\ pc[s] = "unspawned"
    /\ pc' = [pc EXCEPT ![s] = "done"]
    /\ result' = [result EXCEPT ![s] = "Err"]
    /\ UNCHANGED <<stop, progress, in_flight, progress_store, log_end, crashed_in>>

\* The head of a loop that does not look at the stop flag: the body starts.
CheckStopIgnoringFlag(l) ==
    /\ pc[l] = "check"
    /\ pc' = [pc EXCEPT ![l] = IF l \in ServiceIds THEN "read" ELSE "body"]
    /\ UNCHANGED <<stop, result, progress, in_flight, progress_store, log_end, crashed_in>>

\* The head of spawn_loop's while loop: one read of the stop flag, then the
\* body starts or the thread returns Ok.
CheckStop(l) ==
    /\ pc[l] = "check"
    /\ IF stop
       THEN /\ pc' = [pc EXCEPT ![l] = "done"]
            /\ result' = [result EXCEPT ![l] = "Ok"]
       ELSE /\ pc' = [pc EXCEPT ![l] = IF l \in ServiceIds THEN "read" ELSE "body"]
            /\ UNCHANGED result
    /\ UNCHANGED <<stop, progress, in_flight, progress_store, log_end, crashed_in>>

\* spawn_loop when the body returned Err: the flag is set, the thread returns
\* the error.
loop_fails(l) ==
    /\ stop' = TRUE
    /\ pc' = [pc EXCEPT ![l] = "done"]
    /\ result' = [result EXCEPT ![l] = "Err"]

\* The body of a plain loop returns Ok.
BodyOk(l) ==
    /\ l \in PlainLoops
    /\ pc[l] = "body"
    /\ pc' = [pc EXCEPT ![l] = "check"]
    /\ UNCHANGED <<stop, result, progress, in_flight, progress_store, log_end, crashed_in>>

\* The body of a plain loop returns Err.
BodyErr(l) ==
    /\ l \in PlainLoops
    /\ pc[l] = "body"
    /\ loop_fails(l)
    /\ UNCHANGED <<progress, in_flight, progress_store, log_end, crashed_in>>

\* The event loop's body with the cursor written as soon as the event is read,
\* before the handler runs.
ReadEventStoringFirst(s) ==
    /\ pc[s] = "read"
    /\ LET events == read(log_end, progress[s])
       IN  IF events # <<>>
           THEN /\ in_flight' = [in_flight EXCEPT ![s] = Some(events[1])]
                /\ progress_store' = progress_store_tr(progress_store, s, events[1])
                /\ pc' = [pc EXCEPT ![s] = "handle"]
           ELSE /\ pc' = [pc EXCEPT ![s] = "check"]
                /\ UNCHANGED <<in_flight, progress_store>>
    /\ UNCHANGED <<stop, result, progress, log_end, crashed_in>>

\* The event loop's body reads at most one event past `progress`; with none
\* to read the body returns Ok.
ReadEvent(s) ==
    /\ pc[s] = "read"
    /\ LET events == read(log_end, progress[s])
       IN  IF events # <<>>
           THEN /\ in_flight' = [in_flight EXCEPT ![s] = Some(events[1])]
                /\ pc' = [pc EXCEPT ![s] = "handle"]
           ELSE /\ pc' = [pc EXCEPT ![s] = "check"]
                /\ UNCHANGED in_flight
    /\ UNCHANGED <<stop, result, progress, progress_store, log_end, crashed_in>>

\* event_reader.read returns Err.
ReadErr(s) ==
    /\ pc[s] = "read"
    /\ loop_fails(s)
    /\ UNCHANGED <<progress, in_flight, progress_store, log_end, crashed_in>>

\* The handler returns Ok and `progress` stays where it was.
HandlerOkKeepingProgress(s) ==
    /\ pc[s] = "handle"
    /\ pc' = [pc EXCEPT ![s] = "store"]
    /\ UNCHANGED <<stop, result, progress, in_flight, progress_store, log_end, crashed_in>>

\* The handler returns Ok: `progress` moves to the event's offset.
HandlerOk(s) ==
    /\ pc[s] = "handle"
    /\ progress' = [progress EXCEPT ![s] = in_flight[s]]
    /\ pc' = [pc EXCEPT ![s] = "store"]
    /\ UNCHANGED <<stop, result, in_flight, progress_store, log_end, crashed_in>>

\* The handler returns Err and the cursor is moved past the event all the same.
HandlerErrSkipping(s) ==
    /\ pc[s] = "handle"
    /\ progress_store' = progress_store_tr(progress_store, s, in_flight[s][1])
    /\ loop_fails(s)
    /\ UNCHANGED <<progress, in_flight, log_end, crashed_in>>

\* The handler returns Err.
HandlerErr(s) ==
    /\ pc[s] = "handle"
    /\ loop_fails(s)
    /\ UNCHANGED <<progress, in_flight, progress_store, log_end, crashed_in>>

\* progress_store.store(service_id, event.id) succeeds; the body returns Ok.
StoreProgress(s) ==
    /\ pc[s] = "store"
    /\ progress_store' = progress_store_tr(progress_store, s, in_flight[s][1])
    /\ in_flight' = [in_flight EXCEPT ![s] = None]
    /\ pc' = [pc EXCEPT ![s] = "check"]
    /\ UNCHANGED <<stop, result, progress, log_end, crashed_in>>

\* progress_store.store returns Err.
StoreProgressErr(s) ==
    /\ pc[s] = "store"
    /\ loop_fails(s)
    /\ UNCHANGED <<progress, in_flight, progress_store, log_end, crashed_in>>

\* The process dies and is started again: threads, locals and the flag are
\* gone, the shared log and the persisted cursors stay.
Crash ==
    /\ \E l \in Loops : pc[l] # "unspawned"
    /\ crashed_in' = pc
    /\ stop' = FALSE
    /\ pc' = [l \in Loops |-> "unspawned"]
    /\ result' = [l \in Loops |-> "none"]
    /\ progress' = [s \in ServiceIds |-> None]
    /\ in_flight' = [s \in ServiceIds |-> None]
    /\ UNCHANGED <<progress_store, log_end>>

\* --------------------------------------------------- one consumer, observed

\* The consumer whose event loop is observed.
Consumer == "bidding-engine"

Offsets == 1..MaxOffset

HistInit ==
    hist = [calls |-> [o \in Offsets |-> 0], failed_at |-> 0, delivered |-> 0, runs |-> 0]

\* A count that stops at 2.
up_to_two(n) == IF n < 2 THEN n + 1 ELSE 2

\* The consumer's event loop, the worker loop beside it and the producers of
\* the log, with what the history records of each step.
ConsumerAppend ==
    AppendEvent /\ UNCHANGED hist

ConsumerSpawn ==
    SpawnEventLoop(Consumer) /\ UNCHANGED hist

ConsumerLoadFails ==
    SpawnEventLoopLoadFails(Consumer) /\ UNCHANGED hist

ConsumerCheckStop ==
    CheckStop(Consumer) /\ UNCHANGED hist

ConsumerRead ==
    /\ ReadEvent(Consumer)
    /\ hist' = [hist EXCEPT !.delivered =
                    IF in_flight'[Consumer] # None /\ pc'[Consumer] = "handle"
                    THEN in_flight'[Consumer][1] ELSE @]

ConsumerReadErr ==
    ReadErr(Consumer) /\ UNCHANGED hist

ConsumerHandlerOk ==
    /\ HandlerOk(Consumer)
    /\ hist' = [hist EXCEPT !.calls[in_flight[Consumer][1]] = up_to_two(@)]

ConsumerHandlerErr ==
    /\ HandlerErr(Consumer)
    /\ hist' = [hist EXCEPT !.failed_at = in_flight[Consumer][1]]

ConsumerStore ==
    StoreProgress(Consumer) /\ UNCHANGED hist

ConsumerStoreErr ==
    StoreProgressErr(Consumer) /\ UNCHANGED hist

WorkerSpawn ==
    \E l \in PlainLoops : SpawnLoop(l) /\ UNCHANGED hist

WorkerCheckStop ==
    \E l \in PlainLoops :
        /\ CheckStop(l)
        /\ hist' = [hist EXCEPT !.runs = IF pc'[l] = "body" THEN up_to_two(@) ELSE @]

WorkerBodyOk ==
    \E l \in PlainLoops : BodyOk(l) /\ UNCHANGED hist

WorkerBodyErr ==
    \E l \in PlainLoops : BodyErr(l) /\ UNCHANGED hist

ConsumerCrash ==
    /\ Crash
    /\ hist' = [hist EXCEPT !.delivered = 0, !.runs = 0]

\* ------------------------------------------------- the tracker, called directly

\* The offsets a caller may hand to the tracker: those of the log and one
\* beyond.
TrackerOffsets == 1..(MaxOffset + 1)

TrackerInit ==
    tracker = [op |-> "none", id |-> "", offset |-> None,
               stored |-> [id \in ServiceIds |-> None],
               previous |-> [id \in ServiceIds |-> None]]

\* store_tr(id, offset)
TrackerStore(id, offset) ==
    /\ progress_store' = progress_store_tr(progress_store, id, offset)
    /\ tracker' = [op |-> "store_tr", id |-> id, offset |-> Some(offset),
                   stored |-> [tracker.stored EXCEPT ![id] = Some(offset)],
                   previous |-> [tracker.previous EXCEPT ![id] = tracker.stored[id]]]

\* load(id)
TrackerLoad(id) ==
    /\ tracker' = [tracker EXCEPT !.op = "load", !.id = id,
                                  !.offset = progress_load(progress_store, id)]
    /\ UNCHANGED progress_store

\* load_tr(id)
TrackerLoadTr(id) ==
    /\ tracker' = [tracker EXCEPT !.op = "load_tr", !.id = id,
                                  !.offset = progress_load_tr(progress_store, id)]
    /\ UNCHANGED progress_store

tracker_frame == <<engine_vars, hist, stop, pc, result, progress, in_flight, log_end, crashed_in>>

\* ------------------------------------------- the engine following the shared log

\* The records of the log that the engine did not write.
external(log) == {k \in 1..Len(log) : log[k].category # "BiddingEngine"}

\* The auction house or the UI appends an event to the log the engine
\* follows and writes to.
ProduceEvent ==
    \E event \in AuctionHouseEvents \cup UiEvents :
        /\ Cardinality(external(event_log)) < MaxExternal
        /\ event_log' = Append(event_log, event)
        /\ log_end' = Len(event_log')
        /\ UNCHANGED <<bidding_state_store, last, progress_store>>

\* One iteration of the engine's event loop with nothing failing: the event
\* after the cursor is handled, what the handler emits is appended to the
\* same log, and the cursor moves to the event.
FollowLog ==
    LET after == cursor(progress_store[Consumer])
    IN  /\ after < Len(event_log)
        /\ LET event == event_log[after + 1]
               r == handle_event(bidding_state_store, event_log, event, "none")
           IN  /\ bidding_state_store' = r.store
               /\ event_log' = r.log
               /\ log_end' = Len(r.log)
               /\ last' = [event |-> Some(event), fail |-> "none", result |-> r.result,
                           repeat |-> (last.event = Some(event) /\ last.result = "Ok"),
                           auction_state |-> r.auction_state,
                           new_state |-> r.new_state, events |-> r.events]
               /\ progress_store' = progress_store_tr(progress_store, Consumer, after + 1)

follow_frame == <<best, scenario, stop, pc, result, progress, in_flight, crashed_in, aux_vars>>

\* ---------------------------------------------------------- specifications

Init == EngineInit /\ LoopInit /\ HistInit /\ TrackerInit

\* The engine fed with events.
Next == HandleEvent

Spec == Init /\ [][Next]_vars

\* The service loops over the shared log.
LoopNext ==
    \/ AppendEvent /\ UNCHANGED <<engine_vars, aux_vars>>
    \/ \E l \in PlainLoops : SpawnLoop(l) /\ UNCHANGED <<engine_vars, aux_vars>>
    \/ \E l \in PlainLoops : BodyOk(l) /\ UNCHANGED <<engine_vars, aux_vars>>
    \/ \E l \in PlainLoops : BodyErr(l) /\ UNCHANGED <<engine_vars, aux_vars>>
    \/ \E s \in ServiceIds : SpawnEventLoop(s) /\ UNCHANGED <<engine_vars, aux_vars>>
    \/ \E s \in ServiceIds : SpawnEventLoopLoadFails(s) /\ UNCHANGED <<engine_vars, aux_vars>>
    \/ \E s \in ServiceIds : ReadEvent(s) /\ UNCHANGED <<engine_vars, aux_vars>>
    \/ \E s \in ServiceIds : ReadErr(s) /\ UNCHANGED <<engine_vars, aux_vars>>
    \/ \E s \in ServiceIds : HandlerOk(s) /\ UNCHANGED <<engine_vars, aux_vars>>
    \/ \E s \in ServiceIds : HandlerErr(s) /\ UNCHANGED <<engine_vars, aux_vars>>
    \/ \E s \in ServiceIds : StoreProgress(s) /\ UNCHANGED <<engine_vars, aux_vars>>
    \/ \E s \in ServiceIds : StoreProgressErr(s) /\ UNCHANGED <<engine_vars, aux_vars>>
    \/ \E l \in Loops : CheckStop(l) /\ UNCHANGED <<engine_vars, aux_vars>>
    \/ Crash /\ UNCHANGED <<engine_vars, aux_vars>>

SpecLoop == Init /\ [][LoopNext]_vars

\* One consumer's event loop and the worker loop, with their history.
ConsumerNext ==
    \/ ConsumerAppend /\ UNCHANGED <<engine_vars, tracker>>
    \/ ConsumerSpawn /\ UNCHANGED <<engine_vars, tracker>>
    \/ ConsumerLoadFails /\ UNCHANGED <<engine_vars, tracker>>
    \/ ConsumerCheckStop /\ UNCHANGED <<engine_vars, tracker>>
    \/ ConsumerRead /\ UNCHANGED <<engine_vars, tracker>>
    \/ ConsumerReadErr /\ UNCHANGED <<engine_vars, tracker>>
    \/ ConsumerHandlerOk /\ UNCHANGED <<engine_vars, tracker>>
    \/ ConsumerHandlerErr /\ UNCHANGED <<engine_vars, tracker>>
    \/ ConsumerStore /\ UNCHANGED <<engine_vars, tracker>>
    \/ ConsumerStoreErr /\ UNCHANGED <<engine_vars, tracker>>
    \/ WorkerSpawn /\ UNCHANGED <<engine_vars, tracker>>
    \/ WorkerCheckStop /\ UNCHANGED <<engine_vars, tracker>>
    \/ WorkerBodyOk /\ UNCHANGED <<engine_vars, tracker>>
    \/ WorkerBodyErr /\ UNCHANGED <<engine_vars, tracker>>
    \/ ConsumerCrash /\ UNCHANGED <<engine_vars, tracker>>

SpecConsumer == Init /\ [][ConsumerNext]_vars

\* Callers of the progress tracker, in any order and with any offsets.
TrackerNext ==
    \/ \E id \in ServiceIds, offset \in TrackerOffsets :
           TrackerStore(id, offset) /\ UNCHANGED tracker_frame
    \/ \E id \in ServiceIds : TrackerLoad(id) /\ UNCHANGED tracker_frame
    \/ \E id \in ServiceIds : TrackerLoadTr(id) /\ UNCHANGED tracker_frame

SpecTracker == Init /\ [][TrackerNext]_vars

\* The engine consuming the log it writes to, with a bounded number of
\* events from the auction house and the UI; the event loop keeps iterating.
FollowNext ==
    \/ ProduceEvent /\ UNCHANGED follow_frame
    \/ FollowLog /\ UNCHANGED follow_frame

SpecFollow == Init /\ [][FollowNext]_vars /\ WF_vars(FollowLog /\ UNCHANGED follow_frame)

\* -------------------------------------------------------------- properties

\* The call recorded in `call` was made on an AuctionHouse event.
IsAuctionHouseCall(call) == call.event # None /\ call.event[1].category = "AuctionHouse"

\* The call recorded in `call` was made on a MaxBidSet event.
IsMaxBidCall(call) == call.event # None /\ call.event[1].category = "Ui"

\* The positions of the Bid events for item i in a Vec<Event>.
BidsFor(events, i) ==
    {k \in 1..Len(events) : events[k].type = "Bid" /\ events[k].item = i}

\* C1: when a call of handle_event on an AuctionHouse or MaxBidSet event
\* returns an error, the Bidding State Store and the event log are as they
\* were before the call.
C1_FailedCallLeavesNoWrites ==
    [][last'.result = "Err" =>
          /\ bidding_state_store' = bidding_state_store
          /\ event_log' = event_log]_vars

\* C2: the persisted cursor of a service never decreases; and a loop, also one
\* started again after a crash, works from the persisted cursor: at the head
\* of an iteration and while its handler runs its `progress` is the persisted
\* cursor, the event handled is the one right after it, and `progress` runs
\* ahead of the persisted cursor only between the handler's return and the
\* store of that event's offset.
C2_CursorMonotoneAndResumes ==
    [][\A s \in ServiceIds :
          /\ cursor(progress_store'[s]) >= cursor(progress_store[s])
          /\ pc'[s] \in {"check", "read", "handle"} => progress'[s] = progress_store'[s]
          /\ pc'[s] = "handle" => in_flight'[s] = Some(cursor(progress_store'[s]) + 1)
          /\ pc'[s] = "store" =>
                 /\ progress'[s] = in_flight'[s]
                 /\ in_flight'[s] = Some(cursor(progress_store'[s]) + 1)]_vars

\* C2's case: a loop that crashed with an event in flight, its cursor
\* persisted at an earlier event, has been started again and has read the
\* event after the persisted cursor.
C2_ResumedAfterCrash ==
    \E s \in ServiceIds :
        /\ crashed_in[s] \in {"handle", "store"}
        /\ progress_store[s] # None
        /\ pc[s] = "handle"
        /\ in_flight[s] = Some(progress_store[s][1] + 1)

\* C3: whenever a loop has ended with an error the stop flag is set, and from
\* then on no loop starts a new iteration.
C3_FailFastIsGlobal ==
    [][/\ (\E l \in Loops : result'[l] = "Err") => stop'
       /\ (\E l \in Loops : result[l] = "Err") =>
              \A m \in Loops : pc[m] = "check" => pc'[m] \notin {"body", "read"}]_vars

\* C4: once the stored state of an item is closed, every later call leaves it
\* closed and leaves its higest_bid as it is, get_next_bid is None for every
\* ceiling, and the call computes and writes no Bid event for the item.
C4_ClosedIsAbsorbing ==
    [][\A i \in Items :
          (bidding_state_store[i] # None /\ bidding_state_store[i][1].state.closed) =>
              /\ bidding_state_store'[i] # None
              /\ bidding_state_store'[i][1].state.closed
              /\ bidding_state_store'[i][1].state.higest_bid
                     = bidding_state_store[i][1].state.higest_bid
              /\ \A p \in Ceilings \cup 0..(MaxPrice + 2) :
                     get_next_bid(bidding_state_store'[i][1].state, p) = None
              /\ BidsFor(last'.events, i) = {}
              /\ \A k \in (Len(event_log) + 1)..Len(event_log') :
                     ~(event_log'[k].event.type = "Bid" /\ event_log'[k].event.item = i)]_vars

\* C4's case: a Bid event that would outbid the stored highest bid was
\* processed for a closed auction.
C4_BidAfterClosed ==
    /\ IsAuctionHouseCall(last)
    /\ last.event[1].event.type = "Bid"
    /\ last.result = "Ok"
    /\ last.auction_state # None
    /\ last.auction_state[1].state.closed
    /\ \/ last.auction_state[1].state.higest_bid = None
       \/ is_outbidded_by(last.auction_state[1].state.higest_bid[1],
                          last.event[1].event.bid.price)

\* C5: every change of a stored higest_bid is to Some bid, from None or to a
\* price that outbids (and is greater than) the previous one; and the stored
\* higest_bid is the greatest-priced of the bids stored so far.
C5_MonotoneHighestBid ==
    [][\A i \in Items :
          LET h == stored_higest_bid(bidding_state_store[i])
              h2 == stored_higest_bid(bidding_state_store'[i])
          IN  /\ h2 # h =>
                     /\ h2 # None
                     /\ \/ h = None
                        \/ /\ is_outbidded_by(h[1], h2[1].price)
                           /\ h2[1].price > h[1].price
              /\ h2 = None <=> best'[i] = -1
              /\ h2 # None => h2[1].price = best'[i]]_vars

\* C5's case: a Bid with a lower or equal price was processed on an open
\* auction that holds a highest bid, which stayed.
C5_LowerBidIgnored ==
    /\ IsAuctionHouseCall(last)
    /\ last.event[1].event.type = "Bid"
    /\ last.result = "Ok"
    /\ last.auction_state # None
    /\ ~last.auction_state[1].state.closed
    /\ last.auction_state[1].state.higest_bid # None
    /\ last.event[1].event.bid.price <= last.auction_state[1].state.higest_bid[1].price
    /\ last.event[1].event.bid # last.auction_state[1].state.higest_bid[1]
    /\ bidding_state_store[last.event[1].item] = last.auction_state

\* C6: an AuctionHouse event processed a second time in a row on a known item
\* stores nothing, emits nothing and leaves the store and the log as the first
\* processing left them.
C6_RedeliveryIsIdempotent ==
    [][(/\ IsAuctionHouseCall(last')
        /\ last'.repeat
        /\ last'.result = "Ok"
        /\ last.auction_state # None) =>
          /\ last'.new_state = None
          /\ last'.events = <<>>
          /\ bidding_state_store' = bidding_state_store
          /\ event_log' = event_log]_vars

\* C6's case: a Bid event that was accepted and answered with a bid of ours is
\* processed again.
C6_SecondApplication ==
    /\ IsAuctionHouseCall(last)
    /\ last.repeat
    /\ last.result = "Ok"
    /\ last.event[1].event.type = "Bid"
    /\ last.event[1].event.bid.bidder = "Other"
    /\ last.auction_state # None
    /\ ~last.auction_state[1].state.closed
    /\ last.auction_state[1].state.higest_bid = Some(last.event[1].event.bid)
    /\ next_valid_bid(last.event[1].event.bid) <= last.auction_state[1].max_bid

\* C7: a MaxBidSet event for an item whose stored highest bidder is Sniper
\* emits no event and writes none.
C7_NoSelfOutbid ==
    [][\A i \in Items :
          (/\ IsMaxBidCall(last')
           /\ last'.event[1].item = i
           /\ stored_higest_bid(bidding_state_store[i]) # None
           /\ stored_higest_bid(bidding_state_store[i])[1].bidder = "Sniper") =>
              /\ last'.events = <<>>
              /\ event_log' = event_log]_vars

\* C7's case: the ceiling of an open auction we are winning was raised above
\* the next valid bid.
C7_RaisedWhileWinning ==
    /\ IsMaxBidCall(last)
    /\ last.result = "Ok"
    /\ last.auction_state # None
    /\ ~last.auction_state[1].state.closed
    /\ last.auction_state[1].state.higest_bid # None
    /\ last.auction_state[1].state.higest_bid[1].bidder = "Sniper"
    /\ last.event[1].price > last.auction_state[1].max_bid
    /\ last.event[1].price >= next_valid_bid(last.auction_state[1].state.higest_bid[1])

\* C8: an AuctionHouse event for an item with no stored state emits exactly
\* AuctionError(UnknownAuction(item)), which is appended to the log, and
\* leaves the store as it is.
C8_UnknownAuction ==
    [][\A i \in Items :
          (/\ IsAuctionHouseCall(last')
           /\ last'.event[1].item = i
           /\ last'.result = "Ok"
           /\ bidding_state_store[i] = None) =>
              /\ last'.events = <<UnknownAuction(i)>>
              /\ last'.new_state = None
              /\ event_log' = Append(event_log, BiddingEngine(UnknownAuction(i)))
              /\ bidding_state_store' = bidding_state_store]_vars

\* C8's case: a Bid and a Closed event have found no state.
C8_EventForAbsentItem ==
    /\ IsAuctionHouseCall(last)
    /\ last.fail = "none"
    /\ last.auction_state = None
    /\ last.event[1].event.type = "Closed"
    /\ Len(event_log) = 2
    /\ event_log[1] = BiddingEngine(UnknownAuction(last.event[1].item))

\* C9: after a MaxBidSet event for an absent item has been processed, the
\* store holds a state for the item.
C9_MaxBidSetCreatesState ==
    (/\ IsMaxBidCall(last)
     /\ last.result = "Ok"
     /\ last.auction_state = None) =>
        bidding_state_store[last.event[1].item] # None

\* C10: the reference scenario, event by event: the stored state, what the
\* call emitted and what the log holds.
C10_ReferenceScenario ==
    LET st == bidding_state_store["A1"]
        other0 == [bidder |-> "Other", price |-> 0]
        sniper1 == [bidder |-> "Sniper", price |-> 1]
    IN  /\ scenario = 1 =>
              /\ st = Some([max_bid |-> 100,
                            state |-> [higest_bid |-> None, closed |-> FALSE]])
              /\ last.events = <<EngineBid("A1", 0)>>
              /\ event_log = <<BiddingEngine(EngineBid("A1", 0))>>
        /\ scenario = 2 =>
              /\ st = Some([max_bid |-> 100,
                            state |-> [higest_bid |-> Some(other0), closed |-> FALSE]])
              /\ last.events = <<EngineBid("A1", next_valid_bid(other0))>>
              /\ event_log = <<BiddingEngine(EngineBid("A1", 0)),
                               BiddingEngine(EngineBid("A1", 1))>>
        /\ scenario = 3 =>
              /\ st = Some([max_bid |-> 100,
                            state |-> [higest_bid |-> Some(sniper1), closed |-> FALSE]])
              /\ last.events = <<>>
              /\ Len(event_log) = 2
        /\ scenario = 4 =>
              /\ st = Some([max_bid |-> 100,
                            state |-> [higest_bid |-> Some(sniper1), closed |-> TRUE]])
              /\ last.events = <<>>
              /\ Len(event_log) = 2
              /\ \A p \in Ceilings : get_next_bid(st[1].state, p) = None

\* C10's case: the four events of the scenario have been processed.
C10_ScenarioDone == scenario = 4


\* The step in which the consumer's handler is invoked on an event.
Delivers == pc[Consumer] # "handle" /\ pc'[Consumer] = "handle"

\* C11: within the consumer's event loop the handler is invoked on events in
\* strictly increasing offset order: between two restarts each invocation is
\* on the offset right after the one before it, none is skipped, and no
\* event at or below the cursor (the persisted one or the loop's own) is
\* delivered.
C11_DeliveryInOffsetOrder ==
    [][Delivers =>
          LET o == in_flight'[Consumer][1]
          IN  /\ o > hist.delivered
              /\ hist.delivered > 0 => o = hist.delivered + 1
              /\ o > cursor(progress_store[Consumer])
              /\ o > cursor(progress[Consumer])
              /\ o = cursor(progress[Consumer]) + 1]_vars

\* The handler is invoked on the second event right after the first, with no
\* restart in between.
C11_SecondDelivery ==
    /\ crashed_in[Consumer] = "none"
    /\ pc[Consumer] = "handle"
    /\ in_flight[Consumer] = Some(2)
    /\ hist.delivered = 2
    /\ hist.calls[1] >= 1

\* C12: the persisted cursor is at an offset only if the handler returned
\* success for the event there; when the handler returns an error the
\* cursor is not advanced and the loop ends with that error; and the next
\* delivery after that, whatever restarts lie between, is of the same
\* event, so an event that keeps failing blocks the consumer.
C12_CursorNeverPassesUnhandled ==
    [][/\ progress_store'[Consumer] # None =>
              hist'.calls[progress_store'[Consumer][1]] >= 1
       /\ (pc[Consumer] = "handle" /\ result'[Consumer] = "Err") =>
              /\ progress_store' = progress_store
              /\ progress' = progress
              /\ pc'[Consumer] = "done"
       /\ (Delivers /\ hist.failed_at > cursor(progress_store[Consumer])) =>
              in_flight'[Consumer] = Some(hist.failed_at)]_vars

\* The handler failed on an event, the loop ended, the process was started
\* again and the handler is invoked on that event again.
C12_FailedEventReadAgain ==
    /\ crashed_in[Consumer] = "done"
    /\ pc[Consumer] = "handle"
    /\ hist.failed_at > 0
    /\ in_flight[Consumer] = Some(hist.failed_at)
    /\ cursor(progress_store[Consumer]) < hist.failed_at

\* C13: the handler has returned at least once for every event the cursor
\* has passed; a crash between the handler's return and the write of the
\* cursor leaves the cursor before the handled event, and the first delivery
\* after that restart is of an event the handler has already completed.
C13_AtLeastOnce ==
    [][/\ \A o \in Offsets :
              o <= cursor(progress_store'[Consumer]) => hist'.calls[o] >= 1
       /\ (pc[Consumer] = "store" /\ pc'[Consumer] = "unspawned") =>
              /\ progress_store' = progress_store
              /\ hist.calls[in_flight[Consumer][1]] >= 1
              /\ cursor(progress_store'[Consumer]) < in_flight[Consumer][1]
       /\ (Delivers /\ crashed_in[Consumer] = "store" /\ hist.delivered = 0) =>
              hist.calls[in_flight'[Consumer][1]] >= 1]_vars

\* The process died between the handler's return and the write of the
\* cursor, was started again, and the handler has returned a second time for
\* the same event.
C13_HandledTwice ==
    /\ crashed_in[Consumer] = "store"
    /\ pc[Consumer] = "store"
    /\ hist.delivered = in_flight[Consumer][1]
    /\ hist.calls[in_flight[Consumer][1]] = 2
    /\ cursor(progress_store[Consumer]) < in_flight[Consumer][1]

\* The loop's body is running.
InBody(l) == pc[l] \in {"body", "read", "handle", "store"}

\* C15: a loop looks at the stop flag only at the head of an iteration. With
\* the flag clear the body starts; with the flag set the thread returns Ok
\* and the body is not started again (not once, if the flag was set before
\* the first iteration). A body that is running is not interrupted when the
\* flag is set: it leaves the loop only by returning an error of its own.
C15_StopSeenOnlyBetweenIterations ==
    [][\A l \in PlainLoops \cup {Consumer} :
          /\ (pc[l] = "check" /\ pc'[l] \notin {"check", "unspawned"}) =>
                 IF stop
                 THEN pc'[l] = "done" /\ result'[l] = "Ok" /\ hist'.runs = hist.runs
                 ELSE InBody(l)' /\ result'[l] = "none"
          /\ (InBody(l) /\ ~stop /\ stop' /\ result'[l] = "none") => pc'[l] = pc[l]
          /\ (InBody(l) /\ pc'[l] = "done") => result'[l] = "Err"
          /\ (result'[l] = "Ok" /\ result[l] # "Ok") => (stop /\ pc[l] = "check")
          /\ pc[l] = "done" => pc'[l] \in {"done", "unspawned"}]_vars

\* The flag was set before the worker's first iteration: the worker ended
\* with Ok and its body never ran.
C15_StoppedBeforeFirstIteration ==
    \E l \in PlainLoops :
        /\ pc[l] = "done"
        /\ result[l] = "Ok"
        /\ hist.runs = 0
        /\ stop

\* C14: load and load_tr return the offset of the most recent store for that
\* id, whatever it is (also one smaller than the offset stored before it),
\* and None for an id never stored; a store for one id leaves the cursor of
\* every other id as it was, and a load changes no cursor.
C14_LoadReturnsLastStore ==
    [][/\ \A id \in ServiceIds :
              /\ progress_load(progress_store', id) = tracker'.stored[id]
              /\ progress_load_tr(progress_store', id) = tracker'.stored[id]
       /\ tracker'.op \in {"load", "load_tr"} =>
              /\ tracker'.offset = tracker.stored[tracker'.id]
              /\ progress_store' = progress_store
       /\ tracker'.op = "store_tr" =>
              \A other \in ServiceIds \ {tracker'.id} :
                  progress_store'[other] = progress_store[other]]_vars

\* An offset smaller than the one stored before it was stored for an id, a
\* load of that id returned it, and another id holds a cursor of its own.
C14_LoadAfterSmallerStore ==
    /\ tracker.op = "load"
    /\ tracker.offset # None
    /\ tracker.previous[tracker.id] # None
    /\ tracker.offset[1] < tracker.previous[tracker.id][1]
    /\ \E other \in ServiceIds \ {tracker.id} : progress_store[other] # None

\* The ceilings get_next_bid is asked about.
MaxPrices == 0..(MaxPrice + 2)

\* C16: get_next_bid(state, max_price) is None if the auction is closed;
\* otherwise Some(0) if there is no highest bid; otherwise None if the
\* highest bidder is Sniper; otherwise Some(next_valid_bid of the highest
\* bid) exactly when that price is <= max_price and None when it is
\* greater. It is looked at on every state a call computed or stored, for
\* every ceiling, and in the events the call emitted for the state it stored.
C16_GetNextBid ==
    LET answers(state, max_price, answer) ==
            IF state.closed THEN answer = None
            ELSE IF state.higest_bid = None THEN answer = Some(0)
            ELSE IF state.higest_bid[1].bidder = "Sniper" THEN answer = None
            ELSE /\ next_valid_bid(state.higest_bid[1]) <= max_price =>
                        answer = Some(next_valid_bid(state.higest_bid[1]))
                 /\ next_valid_bid(state.higest_bid[1]) > max_price =>
                        answer = None
    IN  /\ \A i \in Items, max_price \in MaxPrices :
               bidding_state_store[i] # None =>
                   answers(bidding_state_store[i][1].state, max_price,
                           get_next_bid(bidding_state_store[i][1].state, max_price))
        /\ \A i \in Items, answer \in {None} \cup {Some(p) : p \in MaxPrices} :
               (/\ last.new_state # None
                /\ last.event[1].item = i
                /\ last.events = bid_events(i, answer)) =>
                   answers(last.new_state[1].state, last.new_state[1].max_bid, answer)

\* Another bidder leads and the next valid bid is exactly the ceiling: the
\* call stored that state and emitted the bid at the ceiling.
C16_BidAtTheCeiling ==
    /\ last.result = "Ok"
    /\ last.new_state # None
    /\ ~last.new_state[1].state.closed
    /\ last.new_state[1].state.higest_bid # None
    /\ last.new_state[1].state.higest_bid[1].bidder = "Other"
    /\ next_valid_bid(last.new_state[1].state.higest_bid[1]) = last.new_state[1].max_bid
    /\ last.events = <<EngineBid(last.event[1].item, last.new_state[1].max_bid)>>

\* C17: for an item with a stored state, a successful call on an AuctionHouse
\* event persists and emits only if the transition changed the state: if it
\* did, the new state is stored and the events are exactly one Bid when
\* get_next_bid yields a price and none otherwise; if it did not, nothing is
\* stored and nothing emitted. Either way max_bid is as before and at most
\* one event is emitted.
C17_AuctionHouseEventFrame ==
    [][\A i \in Items :
          (/\ IsAuctionHouseCall(last')
           /\ last'.event[1].item = i
           /\ last'.result = "Ok"
           /\ bidding_state_store[i] # None) =>
              LET old == bidding_state_store[i][1]
                  after == handle_auction_event(old.state, last'.event[1].event)
              IN  /\ Len(last'.events) <= 1
                  /\ bidding_state_store'[i] # None
                  /\ bidding_state_store'[i][1].max_bid = old.max_bid
                  /\ IF after # old.state
                     THEN /\ last'.new_state = Some([max_bid |-> old.max_bid, state |-> after])
                          /\ bidding_state_store'[i] = last'.new_state
                          /\ last'.events = bid_events(i, get_next_bid(after, old.max_bid))
                          /\ event_log' = write_tr(event_log, last'.events)
                     ELSE /\ last'.new_state = None
                          /\ bidding_state_store' = bidding_state_store
                          /\ last'.events = <<>>
                          /\ event_log' = event_log]_vars

\* An AuctionHouse event changed the stored state of a known item whose
\* ceiling is above 0, and one Bid was emitted.
C17_ChangedAndBid ==
    /\ IsAuctionHouseCall(last)
    /\ last.result = "Ok"
    /\ last.auction_state # None
    /\ last.auction_state[1].max_bid > 0
    /\ last.new_state # None
    /\ Len(last.events) = 1
    /\ last.events[1].type = "Bid"

\* C18: once a MaxBidSet event for an item has been processed, the max_bid
\* stored for the item is the price of that event, whoever the highest
\* bidder is. (Events of the other kinds leave max_bid as it is, so this is
\* the price of the most recently processed MaxBidSet.)
C18_StoredMaxBidTracksLatest ==
    [][\A i \in Items :
          (/\ IsMaxBidCall(last')
           /\ last'.event[1].item = i
           /\ last'.result = "Ok") =>
              /\ bidding_state_store'[i] # None
              /\ bidding_state_store'[i][1].max_bid = last'.event[1].price]_vars

\* C19: every Bid(item, price) a call emits has price <= the max_bid of the
\* state computed in that call for that item, and that state is open and
\* its highest bidder, if there is one, is not Sniper.
C19_NeverBidsAboveCeiling ==
    \A i \in Items :
        \A k \in BidsFor(last.events, i) :
            /\ last.event # None
            /\ last.event[1].category \in {"AuctionHouse", "Ui"}
            /\ last.event[1].item = i
            /\ last.new_state # None
            /\ last.events[k].price <= last.new_state[1].max_bid
            /\ ~last.new_state[1].state.closed
            /\ \/ last.new_state[1].state.higest_bid = None
               \/ last.new_state[1].state.higest_bid[1].bidder # "Sniper"

\* Another bidder leads at the ceiling itself, so the next valid bid is above
\* it: the call stored that state and emitted no Bid.
C19_CeilingReached ==
    /\ IsAuctionHouseCall(last)
    /\ last.result = "Ok"
    /\ last.new_state # None
    /\ ~last.new_state[1].state.closed
    /\ last.new_state[1].state.higest_bid # None
    /\ last.new_state[1].state.higest_bid[1].bidder = "Other"
    /\ next_valid_bid(last.new_state[1].state.higest_bid[1]) > last.new_state[1].max_bid
    /\ last.events = <<>>

\* C20: handle_event on an event of the BiddingEngine category returns Ok,
\* changes no stored state and writes no event; on any other event it
\* writes at most one event; so the log never holds more events of the
\* engine than of the others, and the engine following its own log
\* eventually has consumed all of it and appends no more.
C20_NoFeedbackLoop ==
    /\ [][progress_store'[Consumer] # progress_store[Consumer] =>
              /\ Len(event_log') <= Len(event_log) + 1
              /\ last'.event[1].category = "BiddingEngine" =>
                     /\ last'.result = "Ok"
                     /\ bidding_state_store' = bidding_state_store
                     /\ event_log' = event_log]_vars
    /\ [](Len(event_log) <= 2 * Cardinality(external(event_log)))
    /\ <>[](cursor(progress_store[Consumer]) = Len(event_log))

\* Every event of the others was answered with a Bid, and the engine has
\* consumed the whole log, its own Bids included.
C20_OwnBidsConsumed ==
    /\ Cardinality(external(event_log)) = MaxExternal
    /\ Len(event_log) = 2 * MaxExternal
    /\ cursor(progress_store[Consumer]) = Len(event_log)
    /\ last.event # None
    /\ last.event[1].category = "BiddingEngine"
    /\ last.event[1].event.type = "Bid"

=============================================================================
